---- MODULE Spec2Model ----
(***************************************************************************)
(* A model of conkit.h: the frame buffer (ck_print / ck_flip), the        *)
(* sequence scratch (ck_rgb / ck_cursor_goto / ck_cursor_move and the      *)
(* literal macros), the raw-mode input bracket (getch / kbhit), the        *)
(* console-size query and the lifecycle (ck_init / ck_end), for both the   *)
(* Unix-like and the Windows branch of the header.                         *)
(*                                                                         *)
(* A C string is a sequence of one-character strings; the terminator is    *)
(* not an element of the sequence.  ESC stands for the byte \033.          *)
(***************************************************************************)
EXTENDS Integers, Sequences, FiniteSets, TLC

\* ------------------------------------------------------------------ bounds
\* appends the caller makes between two flushes
MaxAppends == 3
\* characters that may wait in the kernel's input queue
MaxPending == 2

\* Appends between two flushes when both buffers are exercised together.
MixAppends == 2

\* ------------------------------------------------------- program constants
CK_ALLOC_SIZE == 100

ESC == "ESC"

\* The home sequence "\033[H" that prefixes every flush.
HOME == <<ESC, "[", "H">>

\* ------------------------------------------------------------ C helpers
Rep(c, n) == [i \in 1..n |-> c]

strlen(s) == Len(s)

strcpy_over(dst, src) == src

\* strcat(dst, src): src is written over dst's terminator.
strcat(dst, src) == dst \o src

memset_skipped(buf) == buf

\* memset(buf, '\0', size): the content up to the first terminator is empty.
memset0(buf) == << >>

calloc_uncleared(old) == old

\* calloc(n, sizeof(char)): fresh storage with every byte zero, whatever the
\* storage held before.
calloc(old) == << >>

free_skipped(live) == live

\* free(p): the allocation is released.
free(live) == FALSE

\* The capacity loop of ck_print: while (END + len + 1 > SIZE) SIZE += CK_ALLOC_SIZE.
RECURSIVE GrowLoop(_, _, _)
GrowLoop(size, end, len) ==
    IF end + len + 1 > size THEN GrowLoop(size + CK_ALLOC_SIZE, end, len) ELSE size

GrowSizeFromBase(size, end, len) == GrowLoop(CK_ALLOC_SIZE, end, len)

GrowOnce(size, end, len) ==
    IF end + len + 1 > size THEN size + CK_ALLOC_SIZE ELSE size

GrowSize(size, end, len) == GrowLoop(size, end, len)

RECURSIVE Flatten(_)
Flatten(ss) == IF ss = << >> THEN << >> ELSE Head(ss) \o Flatten(Tail(ss))

RECURSIVE SumLen(_)
SumLen(ss) == IF ss = << >> THEN 0 ELSE Len(Head(ss)) + SumLen(Tail(ss))

\* The strings the caller appends: the scenario's two strings, the empty
\* string, one that exactly fills the initial capacity's accounting and one
\* that forces a growth.
Texts ==
    { << >>,
      <<"h", "e", "l", "l", "o">>,
      <<" ", "w", "o", "r", "l", "d">>,
      Rep("x", CK_ALLOC_SIZE - 2),
      Rep("y", CK_ALLOC_SIZE + 50) }


\* --------------------------------------------------- terminal attributes
\* c_lflag as the set of its bits that are set; the other termios fields are
\* copied with it and never changed by the header.
TermModes == { m \cup {"ISIG"} : m \in SUBSET {"ECHO", "ICANON"} }

\* Console output mode flags of the Windows console.
ENABLE_VIRTUAL_TERMINAL_PROCESSING == "ENABLE_VIRTUAL_TERMINAL_PROCESSING"

ConModes ==
    { {},
      {"ENABLE_PROCESSED_OUTPUT", "ENABLE_WRAP_AT_EOL_OUTPUT"},
      {"ENABLE_PROCESSED_OUTPUT", ENABLE_VIRTUAL_TERMINAL_PROCESSING} }

\* CK_CONSOLE_SETTS.c_lflag &= ~ECHO & ~ICANON
RawSetts(orig) == orig \ {"ECHO", "ICANON"}

KeepRaw(orig, setts) == setts

\* The attributes getch and kbhit install before they return.
RestoreSetts(orig, setts) == orig

OnlyAnsiDisabled(saved, cur) == cur \ {ENABLE_VIRTUAL_TERMINAL_PROCESSING}

\* The mode ck_end (Windows) installs: SetConsoleMode(handle, CK_CONSOLE_MODE).
EndConsoleMode(saved, cur) == saved

\* Value of the history variable baseline before the first ck_init.
NoBaseline == {"uncaptured"}

Keys == {"a", "b"}

\* ------------------------------------------------------------ console size
Widths == {0, 80, 120}
Heights == {0, 24}
Dims == [width : Widths, height : Heights]

WidthOnly(newWidth, newHeight, known) == newWidth # known.width

\* newWidth != knownSize.width || newHeight != knownSize.height
SizeDiffers(newWidth, newHeight, known) ==
    newWidth # known.width \/ newHeight # known.height

\* What GetConsoleScreenBufferInfo reports for a window of the given size.
SrWindow(d) == [Left |-> 0, Top |-> 0, Right |-> d.width - 1, Bottom |-> d.height - 1]

NewWidthNoPlusOne(pf, d) ==
    IF pf = "win32" THEN SrWindow(d).Right - SrWindow(d).Left ELSE d.width

\* The dimensions each branch works out from what the OS reports.
NewWidth(pf, d) ==
    IF pf = "win32" THEN SrWindow(d).Right - SrWindow(d).Left + 1 ELSE d.width

NewHeight(pf, d) ==
    IF pf = "win32" THEN SrWindow(d).Bottom - SrWindow(d).Top + 1 ELSE d.height

ResetKnownSize(known) == [width |-> 0, height |-> 0, has_changed |-> FALSE]

\* static struct ck_console_size knownSize: storage of the whole program run,
\* which ck_init and ck_end neither initialise nor release.
StaticKnownSize(known) == known

\* ------------------------------------------------------ escape sequences
\* pointers a generated call can return: the header has one scratch region;
\* "ALT" is a second region no function of the header writes.
Regions == {"CK_SEQUENCE_BUFFER", "ALT"}

AlternateDest(prev) == IF prev = "CK_SEQUENCE_BUFFER" THEN "ALT" ELSE "CK_SEQUENCE_BUFFER"

\* The region a generated call formats into and returns, whatever the
\* previous call returned: sprintf(CK_SEQUENCE_BUFFER, ...); return CK_SEQUENCE_BUFFER.
SequenceDest(prev) == "CK_SEQUENCE_BUFFER"

DigitChars == <<"0", "1", "2", "3", "4", "5", "6", "7", "8", "9">>

HexChars == DigitChars \o <<"a", "b", "c", "d", "e", "f">>

\* printf's %d / %zu of a non-negative value.
RECURSIVE ToDec(_)
ToDec(n) ==
    IF n < 10 THEN << DigitChars[n + 1] >>
    ELSE ToDec(n \div 10) \o << DigitChars[(n % 10) + 1] >>

DigitVal(c) == CHOOSE k \in 0..15 : HexChars[k + 1] = c

RECURSIVE ParseBase(_, _)
ParseBase(digits, base) ==
    IF digits = << >> THEN 0
    ELSE ParseBase(SubSeq(digits, 1, Len(digits) - 1), base) * base
         + DigitVal(digits[Len(digits)])

\* The value the C compiler gives an integer constant: 0x.. is hexadecimal,
\* a leading 0 is octal, anything else decimal.
CValue(tok) ==
    IF Len(tok) > 2 /\ tok[1] = "0" /\ tok[2] = "x"
    THEN ParseBase(SubSeq(tok, 3, Len(tok)), 16)
    ELSE IF Len(tok) > 1 /\ tok[1] = "0"
         THEN ParseBase(Tail(tok), 8)
         ELSE ParseBase(tok, 10)

\* Conversion of an argument to unsigned char.
ToUChar(v) == v % 256

\* The argument tokens the caller writes.
RgbTokens == { <<"2", "5", "5">>, <<"2", "5", "6">> }

CoordTokens == { <<"3">>, <<"5">>, <<"1", "0">>, <<"0", "1", "0">>, <<"0", "x", "1", "0">> }

\* sprintf(CK_SEQUENCE_BUFFER, "\033[%d;2;%d;%d;%dm", where, r, g, b)
ck_rgb(where, r, g, b) ==
    <<ESC, "[">> \o ToDec(ToUChar(where)) \o <<";", "2", ";">> \o ToDec(ToUChar(r))
        \o <<";">> \o ToDec(ToUChar(g)) \o <<";">> \o ToDec(ToUChar(b)) \o <<"m">>

ck_bg_rgb(r, g, b) == ck_rgb(48, r, g, b)

ck_fg_rgb(r, g, b) == ck_rgb(38, r, g, b)

ck_cursor_goto_xy(x, y) == <<ESC, "[">> \o ToDec(x) \o <<";">> \o ToDec(y) \o <<"H">>

\* The format "\033[%zu;%zuH" filled with the digits of y and of x.
ck_cursor_goto_digits(xs, ys) == <<ESC, "[">> \o ys \o <<";">> \o xs \o <<"H">>

\* sprintf(CK_SEQUENCE_BUFFER, "\033[%zu;%zuH", y, x)
ck_cursor_goto(x, y) == ck_cursor_goto_digits(ToDec(x), ToDec(y))

\* The format "\033[%zu%c" filled with the digits of amount and with where.
ck_cursor_move_digits(where, ds) == <<ESC, "[">> \o ds \o << where >>

\* sprintf(CK_SEQUENCE_BUFFER, "\033[%zu%c", amount, where)
ck_cursor_move(where, amount) == ck_cursor_move_digits(where, ToDec(amount))

\* ------------------------------------------------------ scratch capacity
\* A number beyond the model checker's integers is kept as limbs of four
\* decimal digits, least significant first.  MulLimbs multiplies it by f.
RECURSIVE MulLimbs(_, _, _)
MulLimbs(ls, f, carry) ==
    IF ls = << >> THEN (IF carry = 0 THEN << >> ELSE << carry >>)
    ELSE LET v == Head(ls) * f + carry
         IN  << v % 10000 >> \o MulLimbs(Tail(ls), f, v \div 10000)

\* 2^(16 * halves)
RECURSIVE Pow2Limbs(_)
Pow2Limbs(halves) ==
    IF halves = 0 THEN << 1 >> ELSE MulLimbs(Pow2Limbs(halves - 1), 65536, 0)

\* The limbs below the top one, each printed in four digits.
RECURSIVE PadLimbs(_, _)
PadLimbs(ls, k) ==
    IF k = 0 THEN << >>
    ELSE << DigitChars[(ls[k] \div 1000) + 1], DigitChars[((ls[k] \div 100) % 10) + 1],
            DigitChars[((ls[k] \div 10) % 10) + 1], DigitChars[(ls[k] % 10) + 1] >>
         \o PadLimbs(ls, k - 1)

\* printf's %zu of the largest size_t, 2^(8 * sizeof(size_t)) - 1: a power of
\* two is no multiple of 10000, so the lowest limb alone is lowered.
SizeMaxDigits(sizeofSizeT) ==
    LET p == Pow2Limbs(sizeofSizeT \div 2)
        q == [p EXCEPT ![1] = @ - 1]
    IN  ToDec(q[Len(q)]) \o PadLimbs(q, Len(q) - 1)

\* log10(pow(2, sizeof(size_t) * 8) - 1) in units of 1/100000, log10(2) being
\* 0.30103; the - 1 is below that resolution.
Log10SizeMaxScaled(sizeofSizeT) == 8 * sizeofSizeT * 30103

SeqCapacityOneField(sizeofSizeT) ==
    ((Log10SizeMaxScaled(sizeofSizeT) + 100000) + 21 * 100000) \div 100000

\* calloc(2 * (log10(pow(2, sizeof(size_t) * 8) - 1) + 1) + 21, sizeof(char)):
\* the double is truncated to size_t.
SeqCapacity(sizeofSizeT) ==
    (2 * (Log10SizeMaxScaled(sizeofSizeT) + 100000) + 21 * 100000) \div 100000

\* The literal macros: #r pastes the argument's spelling.
ck_bg_rgb_l(r, g, b) ==
    <<ESC, "[", "4", "8", ";", "2", ";">> \o r \o <<";">> \o g \o <<";">> \o b \o <<"m">>

ck_fg_rgb_l(r, g, b) ==
    <<ESC, "[", "3", "8", ";", "2", ";">> \o r \o <<";">> \o g \o <<";">> \o b \o <<"m">>

ck_cursor_goto_l(x, y) == <<ESC, "[">> \o y \o <<";">> \o x \o <<"H">>

ck_cursor_up_l(amount) == <<ESC, "[">> \o amount \o <<"A">>

ck_cursor_down_l(amount) == <<ESC, "[">> \o amount \o <<"B">>

ck_cursor_right_l(amount) == <<ESC, "[">> \o amount \o <<"C">>

ck_cursor_left_l(amount) == <<ESC, "[">> \o amount \o <<"D">>

VARIABLES
    platform,               \* "unix" or "win32": the branch of the header compiled
    state,                  \* "Uninitialized", "Active" or "Exited"
    CK_SCREEN_BUFFER,       \* content of the frame buffer up to its terminator
    CK_SCREEN_BUFFER_SIZE,
    CK_SCREEN_BUFFER_END,
    fbLive,                 \* the frame buffer is allocated and not freed
    seqLive,                \* the sequence scratch is allocated and not freed
    emitted,                \* the writes to stdout made by the last operation
    appended,               \* history: the strings appended since the last flush
    lastOp,                 \* history: the last operation
    prevOp,                 \* history: the operation before it
    termLflag,              \* c_lflag of the terminal on descriptor 0
    CK_CONSOLE_SETTS,
    CK_CONSOLE_ORIG_SETTS,
    conMode,                \* output mode of the Windows console
    CK_CONSOLE_MODE,
    endRestores,            \* history: mode-restoring calls made by the last ck_end
    baseline,               \* history: the console configuration when ck_init ran
    pc,                     \* position inside getch / kbhit, "idle" outside
    kernelIn,               \* characters waiting in the terminal's input queue
    stdioBuf,               \* characters read ahead into stdin's FILE buffer
    revents,                \* fd_buff[0].revents & POLLIN of kbhit's last poll
    inRet,                  \* value returned by the last getch / kbhit
    osSize,                 \* the dimensions the OS reports
    knownSize,              \* static knownSize of ck_current_console_size
    sizeRet,                \* the struct returned by the last query
    lastReported,           \* history: the dimensions reported at the last query
    mem,                    \* content of each region up to its terminator
    view1,                  \* pointer returned by the generated call before the last
    view2,                  \* pointer returned by the last generated call
    lastGen,                \* history: the bytes the last generated call formatted
    litOut,                 \* history: the literal form for the last call's arguments
    litArgs,                \* history: the argument tokens of the last generated call
    sizeofSizeT,            \* sizeof(size_t) of the build, in bytes
    seqCap                  \* allocated size of the scratch region

fbVars == <<CK_SCREEN_BUFFER, CK_SCREEN_BUFFER_SIZE, CK_SCREEN_BUFFER_END,
            fbLive, emitted, appended>>

termVars == <<termLflag, CK_CONSOLE_SETTS, CK_CONSOLE_ORIG_SETTS>>

winVars == <<conMode, CK_CONSOLE_MODE>>

inVars == <<pc, kernelIn, stdioBuf, revents, inRet>>

sizeVars == <<osSize, knownSize, sizeRet, lastReported>>

seqVars == <<mem, view1, view2, lastGen, litOut, litArgs>>

buildVars == <<sizeofSizeT, seqCap>>

vars == <<platform, state, CK_SCREEN_BUFFER, CK_SCREEN_BUFFER_SIZE,
          CK_SCREEN_BUFFER_END, fbLive, seqLive, emitted, appended,
          lastOp, prevOp, termLflag, CK_CONSOLE_SETTS, CK_CONSOLE_ORIG_SETTS,
          conMode, CK_CONSOLE_MODE, endRestores, baseline, pc, kernelIn, stdioBuf,
          revents, inRet, osSize, knownSize, sizeRet, lastReported,
          mem, view1, view2, lastGen, litOut, litArgs, sizeofSizeT, seqCap>>

Op(name) == lastOp' = name /\ prevOp' = lastOp

Init ==
    /\ platform \in {"unix", "win32"}
    /\ state = "Uninitialized"
    /\ CK_SCREEN_BUFFER = << >>
    /\ CK_SCREEN_BUFFER_SIZE = 0
    /\ CK_SCREEN_BUFFER_END = 0
    /\ fbLive = FALSE
    /\ seqLive = FALSE
    /\ emitted = << >>
    /\ appended = << >>
    /\ lastOp = "none"
    /\ prevOp = "none"
    /\ IF platform = "unix"
       THEN termLflag \in TermModes /\ conMode = {}
       ELSE termLflag = {"ISIG"} /\ conMode \in ConModes
    /\ CK_CONSOLE_SETTS = {}
    /\ CK_CONSOLE_ORIG_SETTS = {}
    /\ CK_CONSOLE_MODE = {}
    /\ endRestores = 0
    /\ baseline = NoBaseline
    /\ pc = "idle"
    /\ kernelIn = << >>
    /\ stdioBuf = << >>
    /\ revents = FALSE
    /\ inRet = "none"
    /\ osSize = [width |-> 80, height |-> 24]
    /\ knownSize = [width |-> 0, height |-> 0, has_changed |-> FALSE]
    /\ sizeRet = [width |-> 0, height |-> 0, has_changed |-> FALSE]
    /\ lastReported = [width |-> 0, height |-> 0]
    /\ mem = [r \in Regions |-> << >>]
    /\ view1 = "NULL"
    /\ view2 = "NULL"
    /\ lastGen = << >>
    /\ litOut = << >>
    /\ litArgs = << >>
    /\ sizeofSizeT \in {4, 8}
    /\ seqCap = 0

\* ---------------------------------------------------------------- lifecycle
\* ck_init: capture the console state, allocate both buffers; a failed calloc
\* ends the process.
CkInit ==
    /\ state = "Uninitialized" /\ pc = "idle"
    /\ baseline' = IF platform = "unix" THEN termLflag ELSE conMode
    /\ IF platform = "unix"
       THEN /\ CK_CONSOLE_ORIG_SETTS' = termLflag
            /\ CK_CONSOLE_SETTS' = RawSetts(termLflag)
            /\ UNCHANGED <<termLflag, conMode, CK_CONSOLE_MODE>>
       ELSE /\ CK_CONSOLE_MODE' = conMode
            /\ conMode' = conMode \cup {ENABLE_VIRTUAL_TERMINAL_PROCESSING}
            /\ UNCHANGED termVars
    /\ \E fbOk \in BOOLEAN, seqOk \in BOOLEAN :
        /\ CK_SCREEN_BUFFER_SIZE' = CK_ALLOC_SIZE
        /\ IF ~fbOk
           THEN /\ state' = "Exited"
                /\ UNCHANGED <<CK_SCREEN_BUFFER, CK_SCREEN_BUFFER_END, fbLive, seqLive>>
           ELSE /\ CK_SCREEN_BUFFER' = calloc(CK_SCREEN_BUFFER)
                /\ CK_SCREEN_BUFFER_END' = 0
                /\ fbLive' = TRUE
                /\ seqLive' = seqOk
                /\ state' = IF seqOk THEN "Active" ELSE "Exited"
        /\ seqCap' = IF fbOk /\ seqOk THEN SeqCapacity(sizeofSizeT) ELSE seqCap
    /\ emitted' = << >>
    /\ appended' = << >>
    /\ mem' = [r \in Regions |-> << >>]
    /\ Op("ck_init")
    /\ knownSize' = StaticKnownSize(knownSize)
    /\ UNCHANGED <<platform, sizeofSizeT, endRestores, inVars, osSize, sizeRet,
                   lastReported, view1, view2, lastGen, litOut, litArgs>>

\* ck_end: (Windows) put the output mode back; free both buffers.
CkEnd ==
    /\ state = "Active" /\ pc = "idle"
    /\ IF platform = "win32"
       THEN /\ conMode' = EndConsoleMode(CK_CONSOLE_MODE, conMode)
            /\ endRestores' = 1
       ELSE /\ UNCHANGED conMode
            /\ endRestores' = 0
    /\ fbLive' = free(fbLive)
    /\ seqLive' = free(seqLive)
    /\ state' = "Uninitialized"
    /\ emitted' = << >>
    /\ view1' = "NULL" /\ view2' = "NULL"
    /\ Op("ck_end")
    /\ UNCHANGED <<platform, buildVars, baseline, mem, lastGen, litOut, litArgs, CK_SCREEN_BUFFER, CK_SCREEN_BUFFER_SIZE,
                   CK_SCREEN_BUFFER_END, appended, termVars, CK_CONSOLE_MODE,
                   inVars, osSize, sizeRet, lastReported>>
    /\ knownSize' = StaticKnownSize(knownSize)

\* ------------------------------------------------------------- frame buffer
\* ck_print(buffer): account for the text, reallocate, strcat.  A failed
\* realloc frees both buffers and ends the process.
CkPrint(buffer) ==
    /\ state = "Active" /\ pc = "idle"
    /\ Len(appended) < MaxAppends
    /\ LET len == strlen(buffer) + 1 IN
        /\ CK_SCREEN_BUFFER_SIZE' =
               GrowSize(CK_SCREEN_BUFFER_SIZE, CK_SCREEN_BUFFER_END, len)
        /\ CK_SCREEN_BUFFER_END' = CK_SCREEN_BUFFER_END + len + 1
    /\ \E reallocOk \in BOOLEAN :
        IF reallocOk
        THEN /\ CK_SCREEN_BUFFER' = strcat(CK_SCREEN_BUFFER, buffer)
             /\ appended' = Append(appended, buffer)
             /\ Op("ck_print")
             /\ UNCHANGED <<state, fbLive, seqLive>>
        ELSE /\ fbLive' = free(fbLive)
             /\ seqLive' = free(seqLive)
             /\ state' = "Exited"
             /\ Op("exit")
             /\ UNCHANGED <<CK_SCREEN_BUFFER, appended>>
    /\ emitted' = << >>
    /\ UNCHANGED <<platform, buildVars, baseline, seqVars, termVars, winVars, endRestores, inVars, sizeVars>>

\* ck_flip: one printf of the home sequence and the content, then clear.
CkFlip ==
    /\ state = "Active" /\ pc = "idle"
    /\ emitted' = << HOME \o CK_SCREEN_BUFFER >>
    /\ CK_SCREEN_BUFFER' = memset0(CK_SCREEN_BUFFER)
    /\ CK_SCREEN_BUFFER_END' = 0
    /\ appended' = << >>
    /\ Op("ck_flip")
    /\ UNCHANGED <<platform, buildVars, baseline, seqVars, state, CK_SCREEN_BUFFER_SIZE, fbLive, seqLive,
                   termVars, winVars, endRestores, inVars, sizeVars>>

NextFB == CkInit \/ CkEnd \/ (\E s \in Texts : CkPrint(s)) \/ CkFlip

SpecFB == Init /\ [][NextFB]_vars

\* ------------------------------------------------------ raw-mode input
\* getch and kbhit exist in the Unix-like branch only (conio.h supplies them
\* on Windows).  Each is a bracket: install the raw attributes, read or
\* poll, install the original attributes, return.

\* getch: tcsetattr(0, TCSANOW, &CK_CONSOLE_SETTS)
GetchEnter ==
    /\ platform = "unix" /\ state # "Exited" /\ pc = "idle"
    /\ termLflag' = CK_CONSOLE_SETTS
    /\ pc' = "getch_read"
    /\ UNCHANGED <<platform, buildVars, baseline, seqVars, state, fbVars, seqLive, lastOp, prevOp,
                   CK_CONSOLE_SETTS, CK_CONSOLE_ORIG_SETTS, winVars,
                   endRestores, kernelIn, stdioBuf, revents, inRet, sizeVars>>

\* getch: ret = getchar().  stdin's buffer is served first; when it is empty
\* the call blocks until the terminal has input and reads all of it.
GetchRead ==
    /\ pc = "getch_read"
    /\ IF stdioBuf # << >>
       THEN /\ inRet' = Head(stdioBuf)
            /\ stdioBuf' = Tail(stdioBuf)
            /\ UNCHANGED kernelIn
       ELSE /\ kernelIn # << >>
            /\ inRet' = Head(kernelIn)
            /\ stdioBuf' = Tail(kernelIn)
            /\ kernelIn' = << >>
    /\ pc' = "getch_restore"
    /\ UNCHANGED <<platform, buildVars, baseline, seqVars, state, fbVars, seqLive, lastOp, prevOp, termVars,
                   winVars, endRestores, revents, sizeVars>>

\* getch: tcsetattr(0, TCSANOW, &CK_CONSOLE_ORIG_SETTS); return ret
GetchReturn ==
    /\ pc = "getch_restore"
    /\ termLflag' = RestoreSetts(CK_CONSOLE_ORIG_SETTS, CK_CONSOLE_SETTS)
    /\ pc' = "idle"
    /\ emitted' = << >>
    /\ Op("getch")
    /\ UNCHANGED <<platform, buildVars, baseline, seqVars, state, CK_SCREEN_BUFFER, CK_SCREEN_BUFFER_SIZE,
                   CK_SCREEN_BUFFER_END, fbLive, appended, seqLive,
                   CK_CONSOLE_SETTS, CK_CONSOLE_ORIG_SETTS, winVars,
                   endRestores, kernelIn, stdioBuf, revents, inRet, sizeVars>>

\* kbhit: tcsetattr(0, TCSANOW, &CK_CONSOLE_SETTS)
KbhitEnter ==
    /\ platform = "unix" /\ state # "Exited" /\ pc = "idle"
    /\ termLflag' = CK_CONSOLE_SETTS
    /\ pc' = "kbhit_poll"
    /\ UNCHANGED <<platform, buildVars, baseline, seqVars, state, fbVars, seqLive, lastOp, prevOp,
                   CK_CONSOLE_SETTS, CK_CONSOLE_ORIG_SETTS, winVars,
                   endRestores, kernelIn, stdioBuf, revents, inRet, sizeVars>>

\* kbhit: poll(fd_buff, 1, 0) on descriptor 0
KbhitPoll ==
    /\ pc = "kbhit_poll"
    /\ revents' = (kernelIn # << >>)
    /\ pc' = "kbhit_restore"
    /\ UNCHANGED <<platform, buildVars, baseline, seqVars, state, fbVars, seqLive, lastOp, prevOp, termVars,
                   winVars, endRestores, kernelIn, stdioBuf, inRet, sizeVars>>

\* kbhit: tcsetattr(0, TCSANOW, &CK_CONSOLE_ORIG_SETTS); return revents & POLLIN
KbhitReturn ==
    /\ pc = "kbhit_restore"
    /\ termLflag' = RestoreSetts(CK_CONSOLE_ORIG_SETTS, CK_CONSOLE_SETTS)
    /\ inRet' = revents
    /\ pc' = "idle"
    /\ emitted' = << >>
    /\ Op("kbhit")
    /\ UNCHANGED <<platform, buildVars, baseline, seqVars, state, CK_SCREEN_BUFFER, CK_SCREEN_BUFFER_SIZE,
                   CK_SCREEN_BUFFER_END, fbLive, appended, seqLive,
                   CK_CONSOLE_SETTS, CK_CONSOLE_ORIG_SETTS, winVars,
                   endRestores, kernelIn, stdioBuf, revents, sizeVars>>

\* The user types a character: it joins the terminal's input queue.
KeyPress(c) ==
    /\ Len(kernelIn) < MaxPending
    /\ kernelIn' = Append(kernelIn, c)
    /\ UNCHANGED <<platform, buildVars, baseline, seqVars, state, fbVars, seqLive, lastOp, prevOp, termVars,
                   winVars, endRestores, pc, stdioBuf, revents, inRet, sizeVars>>

NextTerm ==
    \/ CkInit \/ CkEnd
    \/ GetchEnter \/ GetchRead \/ GetchReturn
    \/ KbhitEnter \/ KbhitPoll \/ KbhitReturn
    \/ \E c \in Keys : KeyPress(c)

SpecTerm == Init /\ [][NextTerm]_vars

\* ------------------------------------------------------------ size query
\* ck_current_console_size: read the dimensions, compare them with the static
\* knownSize, update it when they differ, return it.  The Windows branch
\* reads through the handle ck_init obtained.
CkCurrentConsoleSize ==
    /\ state # "Exited" /\ pc = "idle"
    /\ platform = "win32" => baseline # NoBaseline
    /\ LET newWidth == NewWidth(platform, osSize)
           newHeight == NewHeight(platform, osSize)
           changed == SizeDiffers(newWidth, newHeight, knownSize)
       IN  knownSize' =
               IF changed
               THEN [width |-> newWidth, height |-> newHeight, has_changed |-> TRUE]
               ELSE [knownSize EXCEPT !.has_changed = FALSE]
    /\ sizeRet' = knownSize'
    /\ lastReported' = osSize
    /\ emitted' = << >>
    /\ Op("ck_current_console_size")
    /\ UNCHANGED <<platform, buildVars, baseline, seqVars, state, CK_SCREEN_BUFFER,
                   CK_SCREEN_BUFFER_SIZE, CK_SCREEN_BUFFER_END, fbLive, appended,
                   seqLive, termVars, winVars, endRestores, inVars, osSize>>

\* The user resizes the terminal window.
Resize(d) ==
    /\ d # osSize
    /\ osSize' = d
    /\ Op("resize")
    /\ UNCHANGED <<platform, buildVars, baseline, seqVars, state, fbVars, seqLive, termVars, winVars,
                   endRestores, inVars, knownSize, sizeRet, lastReported>>

NextSize == CkInit \/ CkEnd \/ CkCurrentConsoleSize \/ (\E d \in Dims : Resize(d))

SpecSize == Init /\ [][NextSize]_vars

\* -------------------------------------------------------- generated calls
\* A generated call formats into the scratch region and returns a pointer to
\* it.  The caller writes the arguments as the tokens args; the call receives
\* their values, and litOut records what the literal macro of the same
\* operation expands to for the same tokens.
Generated(name, bytes) ==
    /\ state = "Active" /\ pc = "idle"
    /\ LET dest == SequenceDest(view2) IN
        /\ mem' = [mem EXCEPT ![dest] = bytes]
        /\ view2' = dest
    /\ view1' = view2
    /\ lastGen' = bytes
    /\ emitted' = << >>
    /\ Op(name)
    /\ UNCHANGED <<platform, buildVars, baseline, state, CK_SCREEN_BUFFER,
                   CK_SCREEN_BUFFER_SIZE, CK_SCREEN_BUFFER_END, fbLive, appended,
                   seqLive, termVars, winVars, endRestores, inVars, sizeVars>>

\* ck_bg_rgb(r, g, b) / ck_fg_rgb(r, g, b)
CkRgb(where, r, g, b) ==
    /\ Generated("ck_rgb",
                 IF where = 48 THEN ck_bg_rgb(CValue(r), CValue(g), CValue(b))
                               ELSE ck_fg_rgb(CValue(r), CValue(g), CValue(b)))
    /\ litOut' = IF where = 48 THEN ck_bg_rgb_l(r, g, b) ELSE ck_fg_rgb_l(r, g, b)
    /\ litArgs' = <<r, g, b>>

CkCursorGoto(x, y) ==
    /\ Generated("ck_cursor_goto", ck_cursor_goto(CValue(x), CValue(y)))
    /\ litOut' = ck_cursor_goto_l(x, y)
    /\ litArgs' = <<x, y>>

\* ck_cursor_up / down / right / left (amount)
CkCursorMove(where, amount) ==
    /\ Generated("ck_cursor_move", ck_cursor_move(where, CValue(amount)))
    /\ litOut' = CASE where = "A" -> ck_cursor_up_l(amount)
                   [] where = "B" -> ck_cursor_down_l(amount)
                   [] where = "C" -> ck_cursor_right_l(amount)
                   [] where = "D" -> ck_cursor_left_l(amount)
    /\ litArgs' = << amount >>

\* The calls with the longest results.  An argument beyond the model
\* checker's integers is passed as its decimal digits.

\* ck_rgb(255, 255, 255, 255), the function called without its macros
CkRgbWhere ==
    /\ Generated("ck_rgb_where", ck_rgb(255, 255, 255, 255))
    /\ UNCHANGED <<litOut, litArgs>>

\* ck_cursor_goto(SIZE_MAX, SIZE_MAX)
CkCursorGotoMax ==
    LET m == SizeMaxDigits(sizeofSizeT) IN
    /\ Generated("ck_cursor_goto", ck_cursor_goto_digits(m, m))
    /\ litOut' = ck_cursor_goto_l(m, m)
    /\ litArgs' = <<m, m>>

\* ck_cursor_up / down / right / left (SIZE_MAX)
CkCursorMoveMax(where) ==
    LET m == SizeMaxDigits(sizeofSizeT) IN
    /\ Generated("ck_cursor_move", ck_cursor_move_digits(where, m))
    /\ litOut' = CASE where = "A" -> ck_cursor_up_l(m)
                   [] where = "B" -> ck_cursor_down_l(m)
                   [] where = "C" -> ck_cursor_right_l(m)
                   [] where = "D" -> ck_cursor_left_l(m)
    /\ litArgs' = << m >>

NextSeq ==
    \/ CkInit \/ CkEnd
    \/ CkRgbWhere \/ CkCursorGotoMax
    \/ \E where \in {"A", "B", "C", "D"} : CkCursorMoveMax(where)
    \/ \E where \in {38, 48} : \E r \in RgbTokens, g \in RgbTokens, b \in RgbTokens :
           CkRgb(where, r, g, b)
    \/ \E x \in CoordTokens, y \in CoordTokens : CkCursorGoto(x, y)
    \/ \E where \in {"A", "B", "C", "D"} : \E amount \in CoordTokens :
           CkCursorMove(where, amount)

SpecSeq == Init /\ [][NextSeq]_vars

\* ------------------------------------------------- buffers used together
\* #define CK_CLEAR_CONSOLE "\033[2J"
CK_CLEAR_CONSOLE == <<ESC, "[", "2", "J">>

\* ck_print(p), p being the pointer the last generated call returned.
CkPrintView ==
    /\ view2 # "NULL"
    /\ CkPrint(mem[view2])

\* The operations that format into the scratch region from C values.
GeneratedOps == {"ck_rgb", "ck_cursor_goto", "ck_cursor_move"}

\* Input typed and not yet returned by getch.
PendingInput == stdioBuf \o kernelIn

\* A program that draws with literal and generated sequences, queries the
\* size and reads the keyboard, on a 64-bit Unix build started from a cooked
\* terminal.  The size is queried and the keyboard read between a generated
\* call and the use of its result; a key is pressed when no input is pending.
InitMix ==
    /\ Init
    /\ platform = "unix"
    /\ sizeofSizeT = 8
    /\ termLflag = {"ISIG", "ECHO", "ICANON"}

NextMix ==
    \/ CkInit \/ CkEnd
    \/ (Len(appended) < MixAppends /\ CkPrint(CK_CLEAR_CONSOLE))
    \/ (Len(appended) < MixAppends /\ CkPrintView)
    \/ CkFlip
    \/ (lastOp \in GeneratedOps /\ CkCurrentConsoleSize)
    \/ (lastOp \in GeneratedOps /\ GetchEnter) \/ GetchRead \/ GetchReturn
    \/ (lastOp \in GeneratedOps /\ KbhitEnter) \/ KbhitPoll \/ KbhitReturn
    \/ (PendingInput = << >> /\ KeyPress("a"))
    \/ CkRgb(38, <<"2", "5", "5">>, <<"2", "5", "5">>, <<"2", "5", "5">>)
    \/ CkCursorGoto(<<"1", "0">>, <<"5">>)
    \/ CkCursorMove("A", <<"3">>)

SpecMix == InitMix /\ [][NextMix]_vars

\* ------------------------------------------------------------ whole program
\* Every operation of the header and the two events of its environment.  The
\* frame buffer, the terminal attributes, the retained size and the scratch
\* region are written by disjoint groups of operations that share only the
\* lifecycle, so each group is checked in its own specification (SpecFB,
\* SpecTerm, SpecSize, SpecSeq), every one of them with ck_init and ck_end.
Next == NextFB \/ NextTerm \/ NextSize \/ NextSeq

Spec == Init /\ [][Next]_vars

\* ----------------------------------------------------- console properties
\* The console configuration in force: the terminal's attributes in the
\* Unix-like branch, the console's output mode in the Windows branch.
Config == IF platform = "unix" THEN termLflag ELSE conMode

InBracket == pc \in {"getch_read", "getch_restore", "kbhit_poll", "kbhit_restore"}

\* C7: once ck_init has run, the terminal's attributes outside a getch or
\* kbhit call are those ck_init captured, and inside such a call ECHO and
\* ICANON are cleared.
C7_AmbientModeIsBaseline ==
    /\ (platform = "unix" /\ baseline # NoBaseline /\ pc = "idle") => termLflag = baseline
    /\ InBracket => termLflag \cap {"ECHO", "ICANON"} = {}

\* A kbhit after a getch on a terminal whose baseline echoes and buffers.
C7_Witness ==
    /\ platform = "unix" /\ pc = "idle"
    /\ lastOp = "kbhit" /\ prevOp = "getch"
    /\ {"ECHO", "ICANON"} \subseteq baseline
    /\ termLflag = baseline

C6_ChangedIffDiffers ==
    [][CkCurrentConsoleSize =>
        /\ sizeRet'.has_changed = (osSize # lastReported)
        /\ sizeRet'.has_changed =>
               sizeRet'.width = osSize.width /\ sizeRet'.height = osSize.height]_vars

\* Two queries in a row with no resize between them.
C6_Witness ==
    /\ lastOp = "ck_current_console_size" /\ prevOp = "ck_current_console_size"
    /\ lastReported = [width |-> 80, height |-> 24]
    /\ sizeRet = [width |-> 80, height |-> 24, has_changed |-> FALSE]

\* ---------------------------------------------------- sequence properties
\* C9: after two generated calls in a row, the pointer the first returned is
\* the pointer the second returned, and what it points at is the second
\* call's sequence.
C9_FirstViewShowsSecond ==
    (state = "Active" /\ lastOp \in GeneratedOps /\ prevOp \in GeneratedOps) =>
        /\ view1 = view2
        /\ view1 = "CK_SEQUENCE_BUFFER"
        /\ mem[view1] = lastGen

\* ck_fg_rgb(255, 0, 0) and then ck_cursor_goto(10, 5): the colour's view
\* reads as the cursor sequence.
C9_Witness ==
    /\ state = "Active" /\ lastOp = "ck_cursor_goto" /\ prevOp = "ck_rgb"
    /\ lastGen = <<ESC, "[", "5", ";", "1", "0", "H">>
    /\ mem[view1] = lastGen

\* C10: for every argument, the literal form and the generated form of the
\* same operation are the same bytes.
C10_LiteralEqualsGenerated ==
    (state = "Active" /\ lastOp \in GeneratedOps) => litOut = mem[view2]

\* A decimal constant without leading zero, prefix or suffix.
PlainDecimal(tok) ==
    /\ \A k \in 1..Len(tok) : \E d \in 1..10 : DigitChars[d] = tok[k]
    /\ Len(tok) = 1 \/ tok[1] # "0"

\* The value of a plain decimal constant, digit by digit.
RECURSIVE DecimalValue(_)
DecimalValue(tok) ==
    IF tok = << >> THEN 0
    ELSE 10 * DecimalValue(SubSeq(tok, 1, Len(tok) - 1))
         + (CHOOSE d \in 0..9 : DigitChars[d + 1] = tok[Len(tok)])

\* The arguments are plain decimal constants that fit the parameter's type.
ArgsPlainInRange ==
    \A k \in 1..Len(litArgs) :
        /\ PlainDecimal(litArgs[k])
        /\ lastOp = "ck_rgb" => DecimalValue(litArgs[k]) <= 255

\* C10 as the code has it: the two forms are the same bytes when every
\* argument is written as a plain decimal constant that fits the parameter.
C10_LiteralEqualsGeneratedPlain ==
    (state = "Active" /\ lastOp \in GeneratedOps /\ ArgsPlainInRange) =>
        litOut = mem[view2]

\* Cursor goto to column 10, row 5 in both forms.
C10_Witness ==
    /\ state = "Active" /\ lastOp = "ck_cursor_goto"
    /\ litArgs = << <<"1", "0">>, <<"5">> >>
    /\ litOut = <<ESC, "[", "5", ";", "1", "0", "H">>
    /\ mem[view2] = litOut

\* ------------------------------------------------- frame buffer properties
HelloWorld == <<"h", "e", "l", "l", "o", " ", "w", "o", "r", "l", "d">>

\* C1: between ck_init and ck_end, CK_SCREEN_BUFFER_END equals the sum of the
\* lengths of the strings appended since ck_init or the last ck_flip.
C1_EndIsSumOfLengths ==
    state = "Active" => CK_SCREEN_BUFFER_END = SumLen(appended)

\* What the code keeps instead: every append adds its length plus two.
C1_EndCountsTwoMorePerAppend ==
    state = "Active" =>
        CK_SCREEN_BUFFER_END = SumLen(appended) + 2 * Len(appended)

\* C2: between ck_init and ck_end, CK_SCREEN_BUFFER_END is strictly less than
\* CK_SCREEN_BUFFER_SIZE.
C2_EndBelowSize ==
    state = "Active" => CK_SCREEN_BUFFER_END < CK_SCREEN_BUFFER_SIZE

\* What the code keeps instead: END may reach SIZE but never pass it.
C2_EndAtMostSize ==
    state = "Active" => CK_SCREEN_BUFFER_END <= CK_SCREEN_BUFFER_SIZE

\* C3: ck_flip makes exactly one write, the home sequence followed by the
\* concatenation in call order of the strings appended since the last flush;
\* afterwards END is 0 and SIZE is what it was.
C3_FlipEmitsAppended ==
    [][CkFlip =>
        /\ emitted' = << HOME \o Flatten(appended) >>
        /\ CK_SCREEN_BUFFER_END' = 0
        /\ CK_SCREEN_BUFFER_SIZE' = CK_SCREEN_BUFFER_SIZE]_vars

C3_Witness ==
    /\ lastOp = "ck_flip" /\ prevOp = "ck_print"
    /\ emitted = << HOME \o HelloWorld >>
    /\ CK_SCREEN_BUFFER_END = 0

\* C4: no ck_print and no ck_flip decreases CK_SCREEN_BUFFER_SIZE.
C4_CapacityMonotone ==
    [][(CkFlip \/ \E s \in Texts : CkPrint(s)) =>
        CK_SCREEN_BUFFER_SIZE' >= CK_SCREEN_BUFFER_SIZE]_vars

\* A short append made after the buffer grew and was flushed.
C4_Witness ==
    /\ state = "Active" /\ lastOp = "ck_print"
    /\ CK_SCREEN_BUFFER_SIZE > CK_ALLOC_SIZE
    /\ CK_SCREEN_BUFFER_END + 2 < CK_ALLOC_SIZE

\* C5: a ck_flip that directly follows a ck_flip writes only the home
\* sequence and leaves END and SIZE as they were.
C5_SecondFlipEmitsHome ==
    [][(lastOp = "ck_flip" /\ CkFlip) =>
        /\ emitted' = << HOME >>
        /\ CK_SCREEN_BUFFER_END' = CK_SCREEN_BUFFER_END
        /\ CK_SCREEN_BUFFER_SIZE' = CK_SCREEN_BUFFER_SIZE]_vars

\* Two flushes in a row after the buffer had grown.
C5_Witness ==
    /\ lastOp = "ck_flip" /\ prevOp = "ck_flip"
    /\ emitted = << HOME >>
    /\ CK_SCREEN_BUFFER_SIZE > CK_ALLOC_SIZE

\* ---------------------------------------------------------- input properties
\* The characters pending on standard input: those stdin has read ahead and
\* those still in the terminal's queue.
\* A step of kbhit: its entry, its poll or its return.
KbhitStep ==
    \/ KbhitEnter
    \/ KbhitPoll
    \/ pc = "kbhit_restore" /\ pc' = "idle"

\* C11: kbhit returns true exactly when a character is pending on standard
\* input at the call, it consumes nothing, and a getch that follows a kbhit
\* that returned true finds a character to return.
C11_KbhitTrueIffPending ==
    [][/\ KbhitPoll => (revents' = (PendingInput # << >>))
       /\ KbhitStep => UNCHANGED <<kernelIn, stdioBuf>>
       /\ (GetchEnter /\ lastOp = "kbhit" /\ inRet = TRUE) => PendingInput # << >>]_vars

\* What the code keeps instead: the poll sees the terminal's queue only.
C11_KbhitSeesKernelQueueOnly ==
    [][/\ KbhitPoll => (revents' = (kernelIn # << >>))
       /\ KbhitStep => UNCHANGED <<kernelIn, stdioBuf>>
       /\ (GetchEnter /\ lastOp = "kbhit" /\ inRet = TRUE) => PendingInput # << >>]_vars

\* kbhit answered false while stdin holds a character read ahead by getch.
C11_MissedReadAhead ==
    /\ lastOp = "kbhit" /\ prevOp = "getch" /\ pc = "idle"
    /\ inRet = FALSE
    /\ stdioBuf # << >>

\* ------------------------------------------------------ failure properties
\* C12: a ck_print whose realloc fails releases the frame buffer and the
\* scratch, both allocated until then, appends nothing, writes nothing and
\* ends the process: no operation starts from the exited state.
C12_ReallocFailureIsFatal ==
    [][/\ state # "Exited"
       /\ ((\E s \in Texts : CkPrint(s)) /\ state' = "Exited") =>
            /\ fbLive /\ ~fbLive'
            /\ seqLive /\ ~seqLive'
            /\ UNCHANGED <<CK_SCREEN_BUFFER, appended>>
            /\ emitted' = << >>]_vars

\* The process ended in a ck_print made after two successful appends.
C12_Witness ==
    /\ state = "Exited" /\ lastOp = "exit" /\ prevOp = "ck_print"
    /\ Len(appended) = 2
    /\ ~fbLive /\ ~seqLive

\* ------------------------------------------------------- growth properties
\* s is a prefix of t.
IsPrefix(s, t) == Len(s) <= Len(t) /\ SubSeq(t, 1, Len(s)) = s

\* C13: an append leaves the capacity alone when the text, terminator
\* included, fits the current capacity; otherwise it adds the smallest number
\* of CK_ALLOC_SIZE increments that makes it fit.  The capacity is always the
\* initial capacity plus a multiple of CK_ALLOC_SIZE and the earlier content
\* is kept.
C13_GrowthOnlyWhenNeeded ==
    [][\A s \in Texts : (CkPrint(s) /\ state' = "Active") =>
        LET need == Len(CK_SCREEN_BUFFER) + Len(s) + 1 IN
        /\ need <= CK_SCREEN_BUFFER_SIZE =>
               CK_SCREEN_BUFFER_SIZE' = CK_SCREEN_BUFFER_SIZE
        /\ need > CK_SCREEN_BUFFER_SIZE =>
               /\ CK_SCREEN_BUFFER_SIZE' >= need
               /\ CK_SCREEN_BUFFER_SIZE' - CK_ALLOC_SIZE < need
        /\ (CK_SCREEN_BUFFER_SIZE' - CK_ALLOC_SIZE) % CK_ALLOC_SIZE = 0
        /\ IsPrefix(CK_SCREEN_BUFFER, CK_SCREEN_BUFFER')]_vars

\* What the code keeps instead: the same with CK_SCREEN_BUFFER_END, which
\* counts two more than the text on every append, in place of the text.
C13_GrowthFollowsEnd ==
    [][\A s \in Texts : (CkPrint(s) /\ state' = "Active") =>
        LET need == CK_SCREEN_BUFFER_END + Len(s) + 2 IN
        /\ need <= CK_SCREEN_BUFFER_SIZE =>
               CK_SCREEN_BUFFER_SIZE' = CK_SCREEN_BUFFER_SIZE
        /\ need > CK_SCREEN_BUFFER_SIZE =>
               /\ CK_SCREEN_BUFFER_SIZE' >= need
               /\ CK_SCREEN_BUFFER_SIZE' - CK_ALLOC_SIZE < need
        /\ (CK_SCREEN_BUFFER_SIZE' - CK_ALLOC_SIZE) % CK_ALLOC_SIZE = 0
        /\ IsPrefix(CK_SCREEN_BUFFER, CK_SCREEN_BUFFER')]_vars

\* ------------------------------------------------------ scratch properties
\* C14: whatever a generated call has written, its length and its terminator
\* fit the size ck_init allocated for the scratch region.
C14_ScratchHoldsEverySequence ==
    state = "Active" => Len(mem["CK_SEQUENCE_BUFFER"]) + 1 <= seqCap

\* ck_cursor_goto(SIZE_MAX, SIZE_MAX) on a build with an 8-byte size_t: 44
\* characters in a region of 61.
C14_Witness ==
    /\ state = "Active" /\ lastOp = "ck_cursor_goto" /\ sizeofSizeT = 8
    /\ litArgs[1] = <<"1", "8", "4", "4", "6", "7", "4", "4", "0", "7",
                      "3", "7", "0", "9", "5", "5", "1", "6", "1", "5">>
    /\ Len(mem["CK_SEQUENCE_BUFFER"]) = 44
    /\ seqCap = 61

\* -------------------------------------------------- retained size properties
\* C15: every query returns the width and height the OS reports at the call,
\* and leaves the retained size equal to them.
C15_QueryReturnsOsSize ==
    [][CkCurrentConsoleSize =>
        /\ sizeRet'.width = osSize.width /\ sizeRet'.height = osSize.height
        /\ knownSize'.width = osSize.width /\ knownSize'.height = osSize.height]_vars

\* A console-API build queried right after the window was widened.
C15_Witness ==
    /\ platform = "win32"
    /\ lastOp = "ck_current_console_size" /\ prevOp = "resize"
    /\ osSize = [width |-> 120, height |-> 24]
    /\ sizeRet = [width |-> 120, height |-> 24, has_changed |-> TRUE]
    /\ knownSize = sizeRet

\* C19: ck_end and ck_init leave the retained size alone, so the first query
\* after a ck_init reports a change exactly when the OS dimensions differ from
\* those of the last query before it.
C19_RetainedSizeSurvivesRestart ==
    [][/\ (lastOp' \in {"ck_init", "ck_end"}) => UNCHANGED knownSize
       /\ (lastOp = "ck_init" /\ CkCurrentConsoleSize) =>
              sizeRet'.has_changed = (osSize # lastReported)]_vars

\* The first query after a ck_init that followed a ck_end (the console-API
\* ck_end has made its restoring call) finds the size an earlier query retained.
C19_Witness ==
    /\ lastOp = "ck_current_console_size" /\ prevOp = "ck_init"
    /\ platform = "win32" /\ endRestores = 1
    /\ osSize = [width |-> 80, height |-> 24]
    /\ sizeRet = [width |-> 80, height |-> 24, has_changed |-> FALSE]

\* ------------------------------------------------ frame buffer, continued
\* C16: every successful ck_init leaves the frame buffer with END 0, empty
\* content and capacity CK_ALLOC_SIZE, and a ck_flip made right after it emits
\* the home sequence alone.
C16_InitResetsFrameBuffer ==
    [][/\ (CkInit /\ state' = "Active") =>
              /\ CK_SCREEN_BUFFER_END' = 0
              /\ CK_SCREEN_BUFFER' = << >>
              /\ CK_SCREEN_BUFFER_SIZE' = CK_ALLOC_SIZE
       /\ (lastOp = "ck_init" /\ CkFlip) => emitted' = << HOME >>]_vars

\* A flush right after a ck_init that followed a ck_end (the console-API
\* ck_end has made its restoring call).
C16_Witness ==
    /\ lastOp = "ck_flip" /\ prevOp = "ck_init"
    /\ platform = "win32" /\ endRestores = 1
    /\ emitted = << HOME >>
    /\ CK_SCREEN_BUFFER_SIZE = CK_ALLOC_SIZE

\* C17: while the header is active the stored text is the strings appended
\* since the last flush, no longer than CK_SCREEN_BUFFER_END and, terminator
\* included, inside CK_SCREEN_BUFFER_SIZE.
C17_ContentInsideAllocation ==
    state = "Active" =>
        /\ Len(CK_SCREEN_BUFFER) = SumLen(appended)
        /\ SumLen(appended) <= CK_SCREEN_BUFFER_END
        /\ SumLen(appended) < CK_SCREEN_BUFFER_SIZE

\* Two appends of 150 characters: 300 stored, END 304, capacity 400.
C17_Witness ==
    /\ state = "Active" /\ lastOp = "ck_print"
    /\ Len(appended) = 2
    /\ Len(CK_SCREEN_BUFFER) = 300
    /\ CK_SCREEN_BUFFER_END = 304
    /\ CK_SCREEN_BUFFER_SIZE = 400

\* ------------------------------------------------- disjointness properties
\* C18: ck_print, ck_flip, ck_current_console_size and every step of getch
\* and kbhit leave the scratch content unchanged; the generated calls leave
\* the frame buffer's content, END and capacity unchanged; ck_print of the
\* pointer a generated call returned appends exactly that call's sequence,
\* whatever was appended or queried in between.
C18_BuffersDisjoint ==
    [][/\ (lastOp' \in {"ck_print", "ck_flip", "ck_current_console_size"}) =>
              UNCHANGED mem
       /\ (pc # "idle" \/ pc' # "idle") => UNCHANGED mem
       /\ (lastOp' \in GeneratedOps) =>
              UNCHANGED <<CK_SCREEN_BUFFER, CK_SCREEN_BUFFER_END, CK_SCREEN_BUFFER_SIZE>>
       /\ (CkPrintView /\ state' = "Active") =>
              /\ mem[view2] = lastGen
              /\ CK_SCREEN_BUFFER' = CK_SCREEN_BUFFER \o lastGen]_vars

\* A cursor position is generated, CK_CLEAR_CONSOLE is appended, then the
\* generated result: the two appends follow each other with no generated
\* call between them.
C18_Witness ==
    /\ state = "Active" /\ lastOp = "ck_print" /\ prevOp = "ck_print"
    /\ lastGen = <<ESC, "[", "5", ";", "1", "0", "H">>
    /\ appended = << CK_CLEAR_CONSOLE, lastGen >>
    /\ CK_SCREEN_BUFFER = CK_CLEAR_CONSOLE \o lastGen
    /\ mem[view2] = lastGen

====
